---------------------------- MODULE Spec2Model ----------------------------
(***************************************************************************)
(* Telecom-sizing (src/app.py): the RF dimensioning engine                 *)
(* (okumura_hata_path_loss, free_space_path_loss, link_budget_calculation, *)
(* calculate_cell_radius, calculate_advanced_dimensioning) and the         *)
(* /calculate handler that validates a form, runs the engine and writes    *)
(* the pattern image and the PDF report.                                   *)
(*                                                                         *)
(* Numbers.  A Python float is modelled by a record [nan, v]: nan says the *)
(* value is NaN, and otherwise v is the value in binary/decimal fixed      *)
(* point, v / Scale.  Scale = 8192 * 10 makes 0.1, 50 and every midpoint   *)
(* of the 13 halvings of [0.1, 50] exact.  Products are truncated to the   *)
(* fixed-point grid (MulDiv), where the code rounds to the nearest double. *)
(*                                                                         *)
(* log10.  TLA+ has no logarithm.  math.log10 is modelled by what decides  *)
(* the control flow: it raises ValueError on an argument <= 0 and returns  *)
(* NaN on NaN.  The numeric value of a path loss that is computed without  *)
(* error is drawn from PathLossCandidates, which depends on the variable   *)
(* world: a propagation law that is either monotone in distance (loss      *)
(* steps up at world.T) or arbitrary (any candidate at every evaluation).  *)
(***************************************************************************)
EXTENDS Integers, Sequences, FiniteSets, TLC

VARIABLES
    TELECOM_TECHNOLOGIES, \* the module-level technology registry
    world,                \* the propagation law behind the path-loss values
    form,                 \* request.form of the /calculate request
    params,               \* the parsed parameters / the engine's arguments
    pc,                   \* position in the handler / engine
    raised,               \* the exception in flight ("none" when none)
    min_radius,           \* calculate_cell_radius: lower bracket
    max_radius,           \* calculate_cell_radius: upper bracket
    probes,               \* the evaluations of the search so far, in order
    radius,               \* value returned by calculate_cell_radius
    results,              \* value returned by calculate_advanced_dimensioning
    engine_called,        \* calculate_advanced_dimensioning was invoked
    pattern_png,          \* static/patterns/pattern.png ("absent" or content)
    report_pdf,           \* advanced_report.pdf ("absent" or content)
    outcome,              \* the response of the handler / the call's result
    calls,                \* the engine calls that returned a result, in order
    suspended,            \* the locals of the request that is not running
    served                \* what /download_report answered last

vars == << TELECOM_TECHNOLOGIES, world, form, params, pc, raised,
           min_radius, max_radius, probes, radius, results, engine_called,
           pattern_png, report_pdf, outcome, calls, suspended, served >>

-----------------------------------------------------------------------------
(* Fixed-point floats *)

Scale == 8192 * 10

NaN == [nan |-> TRUE, v |-> 0]

\* the float with fixed-point value v (v / Scale)
Fix(v) == [nan |-> FALSE, v |-> v]

\* the float of the integer n
Num(n) == Fix(n * Scale)

\* Python's comparisons on floats: every comparison with NaN is False
Lt(a, b) == ~a.nan /\ ~b.nan /\ a.v < b.v
Le(a, b) == ~a.nan /\ ~b.nan /\ a.v <= b.v
Gt(a, b) == Lt(b, a)
Ge(a, b) == Le(b, a)

Min(a, b) == IF a <= b THEN a ELSE b
Max(a, b) == IF a >= b THEN a ELSE b

\* floor(a * b / c) for a, b >= 0 and 0 < c <= 2 * Scale, as the pair
\* <<quotient, remainder>>, taking b in digits of base Chunk so that no
\* intermediate value leaves the 32 bits of a TLC integer
Chunk == 128 * 128
RECURSIVE MulDivQR(_, _, _)
MulDivQR(a, b, c) ==
    IF b < Chunk
    THEN LET rb == (a % c) * b
         IN  << ((a \div c) * b) + (rb \div c), rb % c >>
    ELSE LET h == MulDivQR(a, b \div Chunk, c)
             l == MulDivQR(a, b % Chunk, c)
             r == ((h[2] * Chunk) % c) + l[2]
         IN  << (h[1] * Chunk) + ((h[2] * Chunk) \div c) + l[1] + (r \div c),
                r % c >>

MulDiv(a, b, c) == MulDivQR(a, b, c)[1]

\* the fixed-point product x * y
FMul(x, y) == MulDiv(x, y, Scale)

\* math.sqrt on a fixed-point value x >= 0: the largest s with s * s <= x
RECURSIVE SqrtBetween(_, _, _)
SqrtBetween(x, lo, hi) ==
    IF hi - lo <= 1 THEN lo
    ELSE LET mid == (lo + hi) \div 2
         IN  IF FMul(mid, mid) <= x THEN SqrtBetween(x, mid, hi)
                                    ELSE SqrtBetween(x, lo, mid)

FSqrt(x) == SqrtBetween(x, 0, x + Scale + 1)

\* int(n / d) for d > 0: truncation toward zero
IntTrunc(n, d) == IF n >= 0 THEN n \div d ELSE -((-n) \div d)

\* math.ceil(n / d) for d > 0
CeilDiv(n, d) == -((-n) \div d)

\* round(x) of Python on n / d, d > 0, n >= 0: to the nearest integer, a
\* tie to the even one
RoundHalfEven(n, d) ==
    LET q == n \div d
        r == n % d
    IN  IF 2 * r < d THEN q
        ELSE IF 2 * r > d THEN q + 1
        ELSE IF q % 2 = 0 THEN q ELSE q + 1

-----------------------------------------------------------------------------
(* The registry, src/app.py:26-66 *)

Registry ==
    [ GSM  |-> [ name |-> "GSM (2G)", tx_power_max |-> 43,
                 rx_sensitivity |-> -104, noise_figure |-> 5,
                 fade_margin |-> 10, interference_margin |-> 3,
                 body_loss |-> 3, cost_per_bts |-> 50000,
                 cost_per_channel |-> 2000 ],
      UMTS |-> [ name |-> "UMTS (3G)", tx_power_max |-> 43,
                 rx_sensitivity |-> -117, noise_figure |-> 7,
                 fade_margin |-> 12, interference_margin |-> 5,
                 body_loss |-> 3, cost_per_bts |-> 80000,
                 cost_per_channel |-> 5000 ],
      LTE  |-> [ name |-> "LTE (4G)", tx_power_max |-> 46,
                 rx_sensitivity |-> -120, noise_figure |-> 6,
                 fade_margin |-> 8, interference_margin |-> 4,
                 body_loss |-> 3, cost_per_bts |-> 120000,
                 cost_per_channel |-> 8000 ] ]

-----------------------------------------------------------------------------
(* Propagation models, src/app.py:69-97 *)

\* math.log10(x) raises ValueError ("math domain error") iff x <= 0;
\* log10(nan) is nan and raises nothing
Log10Raises(x) == ~x.nan /\ x.v <= 0

\* lines 119-120: the antenna gains (dBi)
TX_ANTENNA_GAIN == 18
RX_ANTENNA_GAIN == 0

\* the path loss (dB) at which the link margin of a technology is exactly 0
ZeroMarginLoss(tech_params) ==
    tech_params.tx_power_max + TX_ANTENNA_GAIN + RX_ANTENNA_GAIN
      - tech_params.fade_margin
      - tech_params.interference_margin - tech_params.body_loss
      - tech_params.rx_sensitivity

\* the path-loss values (dB) the propagation law allows at a distance given
\* in tenths of a fixed-point unit.  Under a monotone law the loss steps
\* from 100 dB (feasible for every registry technology) to 200 dB
\* (infeasible for every one) at the distance w.T; under an arbitrary law
\* every evaluation may see either, or a loss that leaves a margin of
\* exactly 0
PathLossCandidates(w, d10) ==
    IF w.kind = "monotone"
    THEN IF d10 < 10 * w.T THEN {100} ELSE {200}
    ELSE {100, 200} \cup {ZeroMarginLoss(Registry[t]) : t \in DOMAIN Registry}

\* okumura_hata_path_loss: loss is the value of the formula when every
\* logarithm in it is defined
okumura_hata_path_loss(frequency, distance, hb, hm, environment, loss) ==
    LET inBand  == Ge(frequency, Num(150)) /\ Le(frequency, Num(1500))
        \* line 80 takes log10(frequency) with frequency >= 150;
        \* line 82 takes log10(11.75 * hm)
        ahmRaises  == ~inBand /\ Log10Raises(hm)
        \* line 85: log10(frequency), log10(hb), log10(distance)
        baseRaises == Log10Raises(frequency) \/ Log10Raises(hb)
                        \/ Log10Raises(distance)
        \* lines 89, 91: log10(frequency / 28), log10(frequency), reached
        \* only with frequency > 0 or NaN
        anyNaN  == frequency.nan \/ distance.nan \/ hb.nan \/ hm.nan
    IN  IF ahmRaises \/ baseRaises
        THEN [raised |-> "ValueError", nan |-> FALSE, path_loss |-> 0]
        ELSE [raised |-> "none", nan |-> anyNaN,
              path_loss |-> IF anyNaN THEN 0 ELSE loss]

\* free_space_path_loss
free_space_path_loss(frequency, distance, loss) ==
    LET anyNaN == frequency.nan \/ distance.nan
    IN  IF Log10Raises(frequency) \/ Log10Raises(distance)
        THEN [raised |-> "ValueError", nan |-> FALSE, path_loss |-> 0]
        ELSE [raised |-> "none", nan |-> anyNaN,
              path_loss |-> IF anyNaN THEN 0 ELSE loss]

-----------------------------------------------------------------------------
(* Link budget, src/app.py:99-141 *)

\* link_margin > 0 (line 140); a NaN margin compares False
LinkFeasible(link_margin, isNaN) == ~isNaN /\ link_margin > 0

link_budget_calculation(tech_params, frequency, distance, hb, hm, environment, loss) ==
    LET pl == IF environment = "free_space"
              THEN free_space_path_loss(frequency, distance, loss)
              ELSE okumura_hata_path_loss(frequency, distance, hb, hm,
                                          environment, loss)
        received_power == (tech_params.tx_power_max + TX_ANTENNA_GAIN
                           + RX_ANTENNA_GAIN - pl.path_loss
                           - tech_params.fade_margin
                           - tech_params.interference_margin
                           - tech_params.body_loss)
        link_margin == received_power - tech_params.rx_sensitivity
    IN  [ raised         |-> pl.raised,
          nan            |-> pl.nan,
          tx_power       |-> tech_params.tx_power_max,
          rx_sensitivity |-> tech_params.rx_sensitivity,
          path_loss      |-> pl.path_loss,
          received_power |-> received_power,
          link_margin    |-> link_margin,
          link_feasible  |-> pl.raised = "none"
                               /\ LinkFeasible(link_margin, pl.nan) ]

-----------------------------------------------------------------------------
(* calculate_cell_radius, src/app.py:143-161 *)

MIN_RADIUS == Scale \div 10      \* min_radius = 0.1 km
MAX_RADIUS == 50 * Scale         \* max_radius = 50 km

\* mutant: a tolerance of 0.005
ExceedsToleranceTight(lo, hi) == (hi - lo) * 200 > Scale

\* max_radius - min_radius > tolerance, with tolerance = 0.01 = 1/100
ExceedsTolerance(lo, hi) == (hi - lo) * 100 > Scale

\* test_radius = (min_radius + max_radius) / 2
Midpoint(lo, hi) == (lo + hi) \div 2

\* mutant: the two assignments swapped
NextBracketSwapped(lo, hi, test_radius, feasible) ==
    IF feasible THEN << lo, test_radius >> ELSE << test_radius, hi >>

\* lines 156-159: a feasible test radius becomes the lower bracket, an
\* infeasible one the upper bracket
NextBracket(lo, hi, test_radius, feasible) ==
    IF feasible THEN << test_radius, hi >> ELSE << lo, test_radius >>

\* mutant: return max_radius
ReturnedRadiusUpper(lo, hi) == hi

\* line 161: return min_radius
ReturnedRadius(lo, hi) == lo

\* the technology profile the engine works with after its lookup
tech_params == TELECOM_TECHNOLOGIES[params.technology]

\* One iteration of the while loop (lines 152-159).  A ValueError of a
\* logarithm leaves the loop and the function.
BisectStep ==
    /\ pc = "bisect"
    /\ ExceedsTolerance(min_radius, max_radius)
    /\ LET test_radius == Midpoint(min_radius, max_radius)
       IN  \E loss \in PathLossCandidates(world, 10 * test_radius) :
             LET link_budget ==
                   link_budget_calculation(tech_params, params.frequency,
                       Fix(test_radius), params.hb, params.hm,
                       params.environment, loss)
             IN  IF link_budget.raised # "none"
                 THEN /\ raised' = link_budget.raised
                      /\ pc' = "except"
                      /\ UNCHANGED << min_radius, max_radius, probes >>
                 ELSE /\ probes' = Append(probes,
                             [ test_radius |-> test_radius,
                               feasible |-> link_budget.link_feasible ])
                      /\ LET b == NextBracket(min_radius, max_radius,
                                      test_radius, link_budget.link_feasible)
                         IN  min_radius' = b[1] /\ max_radius' = b[2]
                      /\ UNCHANGED << raised, pc >>
    /\ UNCHANGED << calls, suspended, served >>
    /\ UNCHANGED << TELECOM_TECHNOLOGIES, world, form, params, radius,
                    results, engine_called, pattern_png, report_pdf,
                    outcome >>

\* The loop ends and the function returns min_radius (line 161).
SolverReturn ==
    /\ pc = "bisect"
    /\ ~ExceedsTolerance(min_radius, max_radius)
    /\ radius' = ReturnedRadius(min_radius, max_radius)
    /\ pc' = "dimension"
    /\ UNCHANGED << calls, suspended, served >>
    /\ UNCHANGED << TELECOM_TECHNOLOGIES, world, form, params, raised,
                    min_radius, max_radius, probes, results, engine_called,
                    pattern_png, report_pdf, outcome >>

-----------------------------------------------------------------------------
(* calculate_advanced_dimensioning, src/app.py:163-235 *)

\* mutant: the unknown key reported as a ValueError
LookupErrorAsValueError == "ValueError"

\* the exception of TELECOM_TECHNOLOGIES[technology] on an unknown key
LookupError == "KeyError"

\* Entry and line 168: the registry lookup.  With a known key the search of
\* calculate_cell_radius starts from its initial bracket (lines 148-149).
Lookup ==
    /\ pc = "engine"
    /\ engine_called' = TRUE
    /\ IF params.technology \in DOMAIN TELECOM_TECHNOLOGIES
       THEN /\ pc' = "bisect"
            /\ UNCHANGED raised
       ELSE /\ pc' = "except"
            /\ raised' = LookupError
    /\ min_radius' = MIN_RADIUS
    /\ max_radius' = MAX_RADIUS
    /\ probes' = << >>
    /\ UNCHANGED << calls, suspended, served >>
    /\ UNCHANGED << TELECOM_TECHNOLOGIES, world, form, params, radius,
                    results, pattern_png, report_pdf, outcome >>

\* line 174: min(1.0, traffic_demand / 100); min(1.0, nan) is 1.0
TrafficFactor(traffic_demand) ==
    IF traffic_demand.nan THEN Scale
    ELSE Min(Scale, traffic_demand.v \div 100)

\* line 175: qos_requirements / 100
QosFactor(qos_requirements) == qos_requirements.v \div 100

\* mutant: the traffic term added instead of subtracted
OptimalRadiusGrowing(maxr, traffic_factor, qos_factor) ==
    FMul(FMul(maxr, Scale + (3 * traffic_factor) \div 10), qos_factor)

\* line 178: max_radius * (1 - 0.3 * traffic_factor) * qos_factor
OptimalRadius(maxr, traffic_factor, qos_factor) ==
    FMul(FMul(maxr, Scale - (3 * traffic_factor) \div 10), qos_factor)

\* line 181: the factor 3 * math.sqrt(3) / 2
HexFactor == (3 * FSqrt(3 * Scale)) \div 2

\* mutant: the cell area kept in a module-level cache that only grows, so
\* that the result of the previous call shows through
CellAreaSticky(optimal_radius) ==
    Max(FMul(HexFactor, FMul(optimal_radius, optimal_radius)),
        IF results = << >> THEN 0 ELSE results[1].cell_area)

\* line 181: (3 * sqrt(3) / 2) * optimal_radius ** 2
CellArea(optimal_radius) ==
    FMul(HexFactor, FMul(optimal_radius, optimal_radius))

\* line 215: math.sqrt(3 * cluster_size), for the cluster sizes 1 .. 7
ReuseFactor == [ N \in 1 .. 7 |-> FSqrt(3 * N * Scale) ]

\* mutant: the quotient rounded down
NumCellsFloor(surface_total, cell_area) == surface_total \div cell_area

\* line 184: math.ceil(surface_total / cell_area), cell_area # 0
NumCells(surface_total, cell_area) == CeilDiv(surface_total, cell_area)

\* mutant: round() in place of int()
ChannelsPerCellRounded(traffic_demand) ==
    Min(8, Max(1, RoundHalfEven(traffic_demand, 10 * Scale)))

\* line 188: min(8, max(1, int(traffic_demand / 10)))
ChannelsPerCell(traffic_demand) ==
    Min(8, Max(1, IntTrunc(traffic_demand, 10 * Scale)))

\* lines 187-195, in tenths of a user: channels * 0.9,
\* min(64, int(traffic_demand * 1.5)), min(200, int(traffic_demand * 2))
CapacityPerCell10(technology, traffic_demand) ==
    IF technology = "GSM" THEN 9 * ChannelsPerCell(traffic_demand)
    ELSE IF technology = "UMTS"
         THEN 10 * Min(64, IntTrunc(3 * traffic_demand, 2 * Scale))
         ELSE 10 * Min(200, IntTrunc(2 * traffic_demand, Scale))

\* mutant: the QoS threshold included
ClusterSizeInclusive(technology, qos_requirements) ==
    IF technology = "GSM"
    THEN IF Ge(qos_requirements, Num(80)) THEN 7 ELSE 4
    ELSE IF technology = "UMTS" THEN 1 ELSE 1

\* lines 208-213
ClusterSize(technology, qos_requirements) ==
    IF technology = "GSM"
    THEN IF Gt(qos_requirements, Num(80)) THEN 7 ELSE 4
    ELSE IF technology = "UMTS" THEN 1 ELSE 1

\* the exception lines 174-195 raise, "none" when they raise none:
\* surface_total / 0.0 is a ZeroDivisionError, math.ceil(nan) and int(nan)
\* are ValueErrors
ArithmeticError(p, cell_area) ==
    IF ~p.qos_requirements.nan /\ cell_area = 0 THEN "ZeroDivisionError"
    ELSE IF p.surface_total.nan \/ p.qos_requirements.nan THEN "ValueError"
    ELSE IF p.traffic_demand.nan THEN "ValueError"
    ELSE "none"

\* Lines 174-235 with the radius returned by the search.  The arguments
\* reach this point with traffic_demand and qos_requirements in [0, 100] or
\* NaN and surface_total > 0 or NaN.  Costs are kept in thousands.
Dimension ==
    /\ pc = "dimension"
    /\ LET p == params
           traffic_factor == TrafficFactor(p.traffic_demand)
           qos_factor == QosFactor(p.qos_requirements)
           optimal_radius == OptimalRadius(radius, traffic_factor, qos_factor)
           cell_area == CellArea(optimal_radius)
           err == ArithmeticError(p, cell_area)
       IN  IF err # "none"
           THEN /\ raised' = err
                /\ pc' = "except"
                /\ UNCHANGED results
           ELSE \E loss \in PathLossCandidates(world, 10 * optimal_radius) :
                LET num_cells == NumCells(p.surface_total.v, cell_area)
                    channels_per_cell == ChannelsPerCell(p.traffic_demand.v)
                    capacity10 ==
                        CapacityPerCell10(p.technology, p.traffic_demand.v)
                    cost_infrastructure ==
                        num_cells * (tech_params.cost_per_bts \div 1000)
                    cost_equipment ==
                        IF p.technology = "GSM"
                        THEN num_cells * channels_per_cell
                               * (tech_params.cost_per_channel \div 1000)
                        ELSE num_cells
                               * (tech_params.cost_per_channel \div 1000)
                    link_budget ==
                        link_budget_calculation(tech_params, p.frequency,
                            Fix(optimal_radius), p.hb, p.hm, p.environment,
                            loss)
                    cluster_size ==
                        ClusterSize(p.technology, p.qos_requirements)
                IN  IF link_budget.raised # "none"
                    THEN /\ raised' = link_budget.raised
                         /\ pc' = "except"
                         /\ UNCHANGED results
                    ELSE /\ results' = <<
                              [ technology        |-> tech_params.name,
                                frequency         |-> p.frequency,
                                environment       |-> p.environment,
                                max_radius        |-> radius,
                                optimal_radius    |-> optimal_radius,
                                cell_area         |-> cell_area,
                                num_cells         |-> num_cells,
                                cluster_size      |-> cluster_size,
                                reuse_distance    |->
                                    FMul(optimal_radius,
                                         ReuseFactor[cluster_size]),
                                capacity_per_cell10 |-> capacity10,
                                total_capacity10  |-> num_cells * capacity10,
                                channels_per_cell |->
                                    IF p.technology = "GSM"
                                    THEN channels_per_cell
                                    ELSE capacity10 \div 10,
                                cost_infrastructure |-> cost_infrastructure,
                                cost_equipment    |-> cost_equipment,
                                total_cost        |->
                                    cost_infrastructure + cost_equipment,
                                link_budget       |-> link_budget,
                                qos_score         |->
                                    Min(100 * Scale,
                                        FMul(p.qos_requirements.v,
                                             Scale - (3 * traffic_factor)
                                                       \div 10)) ] >>
                         /\ pc' = "draw"
                         /\ UNCHANGED raised
    /\ UNCHANGED << calls, suspended, served >>
    /\ UNCHANGED << TELECOM_TECHNOLOGIES, world, form, params, min_radius,
                    max_radius, probes, radius, engine_called, pattern_png,
                    report_pdf, outcome >>

-----------------------------------------------------------------------------
(* draw_advanced_pattern and generate_advanced_report, src/app.py:237-456 *)

\* lines 244-259: the number of hexagons drawn for a cluster size
PatternCenters(N) ==
    IF N = 1 THEN 1
    ELSE IF N = 3 THEN 3
    ELSE IF N = 4 THEN 4
    ELSE IF N = 7 THEN 7
    ELSE 1

\* lines 237-308: what the chart shows of the results it is drawn from, the
\* reuse pattern (left) and the link budget (right)
PatternOf(res) ==
    << [ cluster_size |-> res.cluster_size,
         hexagons     |-> PatternCenters(res.cluster_size),
         technology   |-> res.technology,
         link_budget  |-> res.link_budget ] >>

\* line 498: the chart of the results, saved to static/patterns/pattern.png
DrawPattern ==
    /\ pc = "draw"
    /\ pattern_png' = PatternOf(results[1])
    /\ pc' = "report"
    /\ UNCHANGED << calls, suspended, served >>
    /\ UNCHANGED << TELECOM_TECHNOLOGIES, world, form, params, raised,
                    min_radius, max_radius, probes, radius, results,
                    engine_called, report_pdf, outcome >>

\* line 499: the report of params and results, with the image that
\* static/patterns/pattern.png holds when the report is built (line 434)
GenerateReport ==
    /\ pc = "report"
    /\ report_pdf' = << [ params  |-> params,
                          results |-> results[1],
                          image   |-> pattern_png ] >>
    /\ pc' = "respond"
    /\ UNCHANGED << calls, suspended, served >>
    /\ UNCHANGED << TELECOM_TECHNOLOGIES, world, form, params, raised,
                    min_radius, max_radius, probes, radius, results,
                    engine_called, pattern_png, outcome >>

-----------------------------------------------------------------------------
(* The /calculate handler, src/app.py:462-513 *)

\* float(s) on the strings the requests of the model carry; any other
\* string makes float raise ValueError
FloatLiterals ==
    ("nan" :> NaN) @@ ("-5" :> Num(-5)) @@ ("0" :> Num(0))
      @@ ("1.5" :> Fix((3 * Scale) \div 2)) @@ ("30" :> Num(30))
      @@ ("50" :> Num(50)) @@ ("90" :> Num(90)) @@ ("100" :> Num(100))
      @@ ("101" :> Num(101)) @@ ("900" :> Num(900))
      @@ ("2600" :> Num(2600))

\* the fields read with request.form[...] (a missing one raises
\* BadRequestKeyError), in the order of lines 467-472, and those read with
\* request.form.get(..., default)
RequiredFields ==
    << "surface_total", "technology", "frequency", "environment",
       "traffic_demand", "qos_requirements" >>
FloatFields ==
    { "surface_total", "frequency", "traffic_demand", "qos_requirements",
      "hb", "hm" }
FieldOrder == RequiredFields \o << "hb", "hm" >>

\* float(request.form.get('hb', 30)), float(request.form.get('hm', 1.5))
FieldDefault(k) == IF k = "hb" THEN Num(30) ELSE Fix((3 * Scale) \div 2)

\* the exception reading field k raises, "none" when it raises none
FieldError(f, k) ==
    IF k \notin DOMAIN f
    THEN IF k \in {"hb", "hm"} THEN "none" ELSE "BadRequestKeyError"
    ELSE IF k \in FloatFields /\ f[k] \notin DOMAIN FloatLiterals
         THEN "ValueError"
         ELSE "none"

\* the first exception of lines 466-475, in evaluation order
ParseError(f) ==
    LET bad == { i \in 1 .. Len(FieldOrder) :
                   FieldError(f, FieldOrder[i]) # "none" }
    IN  IF bad = {} THEN "none"
        ELSE FieldError(f, FieldOrder[CHOOSE i \in bad :
                                        \A j \in bad : i <= j])

\* the value of field k in params
FieldValue(f, k) ==
    IF k \notin DOMAIN f THEN FieldDefault(k)
    ELSE IF k \in FloatFields THEN FloatLiterals[f[k]]
    ELSE f[k]

\* lines 466-475
Parse ==
    /\ pc = "parse"
    /\ IF ParseError(form) # "none"
       THEN /\ raised' = ParseError(form)
            /\ pc' = "except"
            /\ UNCHANGED params
       ELSE /\ params' = [ k \in FloatFields \cup {"technology", "environment"}
                             |-> FieldValue(form, k) ]
            /\ pc' = "validate"
            /\ UNCHANGED raised
    /\ UNCHANGED << calls, suspended, served >>
    /\ UNCHANGED << TELECOM_TECHNOLOGIES, world, form, min_radius,
                    max_radius, probes, radius, results, engine_called,
                    pattern_png, report_pdf, outcome >>

\* lines 478-483: the three range checks, each raising ValueError
ValidationFails(p) ==
    \/ Le(p.surface_total, Num(0))
    \/ Lt(p.traffic_demand, Num(0)) \/ Gt(p.traffic_demand, Num(100))
    \/ Lt(p.qos_requirements, Num(0)) \/ Gt(p.qos_requirements, Num(100))

Validate ==
    /\ pc = "validate"
    /\ IF ValidationFails(params)
       THEN /\ raised' = "ValueError"
            /\ pc' = "except"
       ELSE /\ pc' = "engine"
            /\ UNCHANGED raised
    /\ UNCHANGED << calls, suspended, served >>
    /\ UNCHANGED << TELECOM_TECHNOLOGIES, world, form, params, min_radius,
                    max_radius, probes, radius, results, engine_called,
                    pattern_png, report_pdf, outcome >>

\* lines 501-506: the success flash and the page with the results
Respond ==
    /\ pc = "respond"
    /\ outcome' = "success"
    /\ pc' = "done"
    /\ UNCHANGED << calls, suspended, served >>
    /\ UNCHANGED << TELECOM_TECHNOLOGIES, world, form, params, raised,
                    min_radius, max_radius, probes, radius, results,
                    engine_called, pattern_png, report_pdf >>

\* lines 508-510: except ValueError, "Erreur de validation"
HandleValueError ==
    /\ pc = "except"
    /\ raised = "ValueError"
    /\ outcome' = "validation_error"
    /\ pc' = "done"
    /\ UNCHANGED << calls, suspended, served >>
    /\ UNCHANGED << TELECOM_TECHNOLOGIES, world, form, params, raised,
                    min_radius, max_radius, probes, radius, results,
                    engine_called, pattern_png, report_pdf >>

\* lines 511-513: except Exception, "Erreur de calcul"
HandleException ==
    /\ pc = "except"
    /\ raised # "ValueError"
    /\ outcome' = "calculation_error"
    /\ pc' = "done"
    /\ UNCHANGED << calls, suspended, served >>
    /\ UNCHANGED << TELECOM_TECHNOLOGIES, world, form, params, raised,
                    min_radius, max_radius, probes, radius, results,
                    engine_called, pattern_png, report_pdf >>

-----------------------------------------------------------------------------
(* Values shared by the initial states *)

NoForm == << >>

\* the arguments of the reference scenario: LTE, 1800 MHz, urban, 30 m and
\* 1.5 m antennas, 100 km2, 50 % traffic, 90 % QoS
ReferenceParams ==
    [ surface_total    |-> Num(100),
      technology       |-> "LTE",
      frequency        |-> Num(1800),
      environment      |-> "urban",
      traffic_demand   |-> Num(50),
      qos_requirements |-> Num(90),
      hb               |-> Num(30),
      hm               |-> Fix((3 * Scale) \div 2) ]

\* monotone propagation laws: the loss steps up at k / CrossingsPerKm km
CrossingsPerKm == 4
MaxCrossing == 204
MonotoneWorlds ==
    { [kind |-> "monotone", T |-> (k * Scale) \div CrossingsPerKm] :
        k \in 0 .. MaxCrossing }

ArbitraryWorld == [kind |-> "arbitrary", T |-> 0]

\* what every entry point starts from: nothing raised, nothing computed,
\* no file written
Fresh ==
    /\ TELECOM_TECHNOLOGIES = Registry
    /\ raised = "none"
    /\ min_radius = MIN_RADIUS
    /\ max_radius = MAX_RADIUS
    /\ probes = << >>
    /\ radius = 0
    /\ results = << >>
    /\ engine_called = FALSE
    /\ pattern_png = << >>
    /\ report_pdf = << >>
    /\ outcome = "pending"
    /\ calls = << >>
    /\ suspended = << >>
    /\ served = << >>

-----------------------------------------------------------------------------
(* SpecSolver: calculate_cell_radius called on a registry profile, under  *)
(* every propagation law                                                   *)

InitSolver ==
    /\ Fresh
    /\ form = NoForm
    /\ world \in MonotoneWorlds \cup {ArbitraryWorld}
    /\ \E t \in DOMAIN Registry, e \in {"urban", "free_space"} :
         params = [ReferenceParams EXCEPT !.technology = t, !.environment = e]
    /\ pc = "bisect"

NextSolver == BisectStep \/ SolverReturn

SpecSolver == InitSolver /\ [][NextSolver]_vars

\* calculate_cell_radius has returned
SolverReturned == pc = "dimension"

\* the link budget of the profile in use is feasible at the distance d10
\* (tenths of a fixed-point unit), whatever loss the law allows there
FeasibleAt(d10) ==
    \A loss \in PathLossCandidates(world, d10) :
        link_budget_calculation(tech_params, params.frequency,
            Fix(d10 \div 10), params.hb, params.hm, params.environment,
            loss).link_feasible

\* C1 (as claimed): the radius returned is the lower bracket, was evaluated
\* and found feasible during the search, was never evaluated as infeasible,
\* and is not the upper bracket.
C1_ReturnedRadiusWasFoundFeasible ==
    SolverReturned =>
        /\ radius = min_radius
        /\ radius # max_radius
        /\ \E i \in 1 .. Len(probes) :
               probes[i].test_radius = radius /\ probes[i].feasible
        /\ \A i \in 1 .. Len(probes) :
               probes[i].test_radius = radius => probes[i].feasible

\* C1 (amended): the radius returned is the lower bracket, is not the upper
\* bracket and was never evaluated as infeasible; it was evaluated and found
\* feasible during the search, unless every evaluation was infeasible: it is
\* then the initial lower bound 0.1 km, which the search never evaluates.
C1_ReturnedRadiusIsLowerBracket ==
    SolverReturned =>
        /\ radius = min_radius
        /\ radius # max_radius
        /\ \A i \in 1 .. Len(probes) :
               probes[i].test_radius = radius => probes[i].feasible
        /\ \/ \E i \in 1 .. Len(probes) :
                  probes[i].test_radius = radius /\ probes[i].feasible
           \/ /\ radius = MIN_RADIUS
              /\ \A i \in 1 .. Len(probes) : ~probes[i].feasible

\* C1 witness: under a law that owes nothing to monotonicity, the search has
\* returned a radius it found feasible, after verdicts of both kinds.
C1_Witness ==
    /\ SolverReturned
    /\ world.kind = "arbitrary"
    /\ \E i \in 1 .. Len(probes) :
           probes[i].test_radius = radius /\ probes[i].feasible
    /\ \E i \in 1 .. Len(probes) : ~probes[i].feasible

\* C2 (as claimed): under a propagation law that is monotone in distance,
\* the link budget is feasible at the returned radius r and infeasible at
\* r + 0.02 km.
C2_BoundaryProperty ==
    (SolverReturned /\ world.kind = "monotone") =>
        /\ FeasibleAt(10 * radius)
        /\ ~FeasibleAt(10 * radius + (2 * 10 * Scale) \div 100)

\* C2 (amended): under a propagation law that is monotone in distance,
\* feasible at 0.1 km and infeasible at 50 km, the link budget is feasible
\* at the returned radius r and infeasible at r + 0.02 km.
C2_BoundaryInsideBracket ==
    (/\ SolverReturned
     /\ world.kind = "monotone"
     /\ FeasibleAt(10 * MIN_RADIUS)
     /\ ~FeasibleAt(10 * MAX_RADIUS)) =>
        /\ FeasibleAt(10 * radius)
        /\ ~FeasibleAt(10 * radius + (2 * 10 * Scale) \div 100)

\* C2 witness: the search has returned a radius strictly inside the bracket
\* under a monotone law that is feasible at 0.1 km and infeasible at 50 km.
C2_Witness ==
    /\ SolverReturned
    /\ world.kind = "monotone"
    /\ FeasibleAt(10 * MIN_RADIUS)
    /\ ~FeasibleAt(10 * MAX_RADIUS)
    /\ radius > MIN_RADIUS

\* C3: whatever the verdicts, the search makes at most 13 evaluations, it
\* has made exactly 13 when it returns, and the bracket is then at most
\* 0.01 km wide.
C3_ThirteenEvaluations ==
    /\ Len(probes) <= 13
    /\ SolverReturned =>
         /\ Len(probes) = 13
         /\ (max_radius - min_radius) * 100 <= Scale

\* C3 witness: the search has returned after 13 evaluations whose verdicts
\* alternate (feasible, infeasible, feasible, ...).
C3_Witness ==
    /\ SolverReturned
    /\ Len(probes) = 13
    /\ \A i \in 1 .. Len(probes) : probes[i].feasible <=> (i % 2 = 1)

-----------------------------------------------------------------------------
(* SpecEngine: calculate_advanced_dimensioning called on arguments that    *)
(* satisfy the interface constraints.  QoS targets are 0 or at least 50 %, *)
(* so that optimal_radius ** 2 is 0 in fixed point only when it is 0.      *)

SurfaceSteps == 3
EngineSurfaces == { 1 + 33 * k : k \in 0 .. SurfaceSteps }
EngineQos == {0, 50, 80, 81, 100}
EngineTraffic == 0 .. 100

\* the loss steps up below 0.1 km (no radius is feasible), at 2 km, or
\* beyond 50 km (every radius is feasible)
EngineWorlds ==
    { [kind |-> "monotone", T |-> k * Scale] : k \in {0, 2, 51} }

InitEngine ==
    /\ Fresh
    /\ form = NoForm
    /\ world \in EngineWorlds
    /\ \E t \in DOMAIN Registry, s \in EngineSurfaces, td \in EngineTraffic,
          q \in EngineQos :
         params = [ReferenceParams EXCEPT !.technology = t,
                                          !.surface_total = Num(s),
                                          !.traffic_demand = Num(td),
                                          !.qos_requirements = Num(q)]
    /\ pc = "engine"

NextEngine == Lookup \/ BisectStep \/ SolverReturn \/ Dimension

SpecEngine == InitEngine /\ [][NextEngine]_vars

\* calculate_advanced_dimensioning has returned a result
HasResult == results # << >>

\* C4: in every result, num_cells is the ceiling of surface_total /
\* cell_area: num_cells cells cover the surface and num_cells - 1 do not.
C4_CoveringProperty ==
    HasResult =>
        /\ results[1].num_cells * results[1].cell_area
             >= params.surface_total.v
        /\ (results[1].num_cells - 1) * results[1].cell_area
             < params.surface_total.v

\* C4 witness: a result whose surface is not a whole number of cells, so
\* that the ceiling rounds up.
C4_Witness ==
    /\ HasResult
    /\ results[1].num_cells > 1
    /\ results[1].num_cells * results[1].cell_area > params.surface_total.v

\* the result is one of GSM for a traffic demand in [0, 100]
GsmResult ==
    /\ HasResult
    /\ params.technology = "GSM"
    /\ Ge(params.traffic_demand, Num(0))
    /\ Le(params.traffic_demand, Num(100))

\* C5 (as claimed): for GSM, channels_per_cell is traffic_demand / 10
\* rounded to the nearest integer and clamped to [1, 8].
C5_ChannelsRounded ==
    GsmResult =>
        results[1].channels_per_cell
          = Min(8, Max(1, RoundHalfEven(params.traffic_demand.v, 10 * Scale)))

\* C5 (amended): for GSM, channels_per_cell is traffic_demand / 10 rounded
\* down and clamped to [1, 8]: 1 below 20 %, 8 from 80 %, and otherwise the
\* k with 10 k <= traffic_demand < 10 (k + 1).
C5_ChannelsTruncated ==
    GsmResult =>
        LET k  == results[1].channels_per_cell
            td == params.traffic_demand.v
        IN  /\ k \in 1 .. 8
            /\ k > 1 => 10 * k * Scale <= td
            /\ k < 8 => td < 10 * (k + 1) * Scale

\* C5 witness: a GSM result for a traffic demand whose tenth rounds up, 17 %.
C5_Witness ==
    /\ GsmResult
    /\ params.traffic_demand = Num(17)
    /\ results[1].channels_per_cell = 1

\* C9: cluster_size is 7 for GSM above 80 % QoS and 4 for GSM otherwise, 1
\* for UMTS and LTE, and so always one of 1, 3, 4, 7.
C9_ClusterSizeRule ==
    HasResult =>
        /\ results[1].cluster_size
             = (IF params.technology = "GSM"
                THEN IF params.qos_requirements.v > 80 * Scale THEN 7 ELSE 4
                ELSE 1)
        /\ results[1].cluster_size \in {1, 3, 4, 7}

\* C9 witness: a GSM result at exactly 80 % QoS, with cluster size 4.
C9_Witness ==
    /\ HasResult
    /\ params.technology = "GSM"
    /\ params.qos_requirements = Num(80)
    /\ results[1].cluster_size = 4

\* C10: in every result, optimal_radius <= max_radius, and max_radius is the
\* radius the bisection returned.
C10_OptimalWithinMax ==
    HasResult =>
        /\ results[1].max_radius = min_radius
        /\ results[1].optimal_radius <= results[1].max_radius

\* C10 witness: a result with full QoS and no traffic, where optimal_radius
\* reaches max_radius, and the radius came out of a search that moved.
C10_Witness ==
    /\ HasResult
    /\ params.qos_requirements = Num(100)
    /\ params.traffic_demand = Num(0)
    /\ results[1].optimal_radius = results[1].max_radius
    /\ results[1].max_radius > MIN_RADIUS

-----------------------------------------------------------------------------
(* SpecPropagation: the three propagation entry points called directly on  *)
(* positive, zero and negative arguments                                   *)

\* One direct call of params.fn on the arguments in params.
CallPropagation ==
    /\ pc = "call"
    /\ \E loss \in PathLossCandidates(world, 10 * params.distance.v) :
         LET r == IF params.fn = "free_space_path_loss"
                  THEN free_space_path_loss(params.frequency,
                           params.distance, loss)
                  ELSE IF params.fn = "okumura_hata_path_loss"
                  THEN okumura_hata_path_loss(params.frequency,
                           params.distance, params.hb, params.hm,
                           params.environment, loss)
                  ELSE link_budget_calculation(tech_params,
                           params.frequency, params.distance, params.hb,
                           params.hm, params.environment, loss)
         IN  IF r.raised # "none"
             THEN /\ raised' = r.raised
                  /\ pc' = "except"
                  /\ UNCHANGED results
             ELSE /\ results' = << r >>
                  /\ pc' = "returned"
                  /\ UNCHANGED raised
    /\ UNCHANGED << calls, suspended, served >>
    /\ UNCHANGED << TELECOM_TECHNOLOGIES, world, form, params, min_radius,
                    max_radius, probes, radius, engine_called, pattern_png,
                    report_pdf, outcome >>

PropagationFunctions ==
    { "free_space_path_loss", "okumura_hata_path_loss",
      "link_budget_calculation" }
Environments == { "urban", "suburban", "rural", "free_space" }

\* the magnitudes tried for each argument, each with the signs -, 0, +
SignedValues(n) == { Num(-n), Num(0), Num(n) }

InitPropagation ==
    /\ Fresh
    /\ form = NoForm
    /\ world = ArbitraryWorld
    /\ \E fn \in PropagationFunctions, e \in Environments,
          f \in SignedValues(900) \cup SignedValues(2600),
          d \in SignedValues(2), b \in SignedValues(30),
          m \in SignedValues(1) :
         params = [ fn |-> fn, technology |-> "GSM", frequency |-> f,
                    distance |-> d, hb |-> b, hm |-> m, environment |-> e ]
    /\ pc = "call"

NextPropagation == CallPropagation

SpecPropagation == InitPropagation /\ [][NextPropagation]_vars

\* the call has ended, by a return or by an exception
CallEnded == pc \in {"returned", "except"}

\* some argument the called function takes is <= 0
NonPositiveArgument ==
    \/ Le(params.frequency, Num(0))
    \/ Le(params.distance, Num(0))
    \/ /\ params.fn # "free_space_path_loss"
       /\ Le(params.hb, Num(0)) \/ Le(params.hm, Num(0))

\* C6 (as claimed): a call with a non-positive frequency, distance, hb or hm
\* fails with a domain error and returns no path loss, in every environment
\* and in both frequency ranges.
C6_DomainErrorsRejected ==
    (CallEnded /\ NonPositiveArgument) =>
        /\ pc = "except"
        /\ raised = "ValueError"
        /\ results = << >>

-----------------------------------------------------------------------------
(* Spec: one /calculate request, from the form to the response *)

\* the form of the reference scenario
ReferenceForm ==
    [ surface_total |-> "100", technology |-> "LTE", frequency |-> "900",
      environment |-> "urban", traffic_demand |-> "50",
      qos_requirements |-> "90", hb |-> "30", hm |-> "1.5" ]

\* the form f without its field k
Without(f, k) == [ x \in (DOMAIN f) \ {k} |-> f[x] ]

\* complete forms, and the reference form with one field missing
RequestForms ==
    [ surface_total    : {"100", "0", "nan", "abc"},
      technology       : {"GSM", "LTE", "5G"},
      frequency        : {"900", "2600", "-5"},
      environment      : {"urban", "free_space"},
      traffic_demand   : {"50", "101", "nan"},
      qos_requirements : {"90", "0", "-5", "nan"},
      hb               : {"30", "0"},
      hm               : {"1.5", "0"} ]
    \cup { Without(ReferenceForm, k) : k \in DOMAIN ReferenceForm }

NoParams == << >>

Init ==
    /\ Fresh
    /\ form \in RequestForms
    /\ world \in EngineWorlds
    /\ params = NoParams
    /\ pc = "parse"

Next ==
    \/ Parse
    \/ Validate
    \/ Lookup
    \/ BisectStep
    \/ SolverReturn
    \/ Dimension
    \/ DrawPattern
    \/ GenerateReport
    \/ Respond
    \/ HandleValueError
    \/ HandleException

Spec == Init /\ [][Next]_vars

\* the technology key of the request is not in the registry
UnknownTechnology ==
    /\ engine_called
    /\ params.technology \notin DOMAIN TELECOM_TECHNOLOGIES

\* C7: with a technology key that is not in the registry the engine fails
\* with a lookup error before any radius, capacity or link-budget
\* computation and yields no result; the handler reports it through the
\* calculation-error path, not the validation-error path.
C7_LookupFailure ==
    UnknownTechnology =>
        /\ pc \in {"except", "done"}
        /\ raised = "KeyError"
        /\ probes = << >> /\ radius = 0 /\ results = << >>
        /\ pattern_png = << >> /\ report_pdf = << >>
        /\ outcome \in {"pending", "calculation_error"}
        /\ pc = "done" => outcome = "calculation_error"

\* C7 witness: a request with an unknown technology key has been answered
\* after the engine was called.
C7_Witness ==
    /\ UnknownTechnology
    /\ pc = "done"
    /\ outcome = "calculation_error"

\* the three ranges the handler validates
RangesHold ==
    /\ Gt(params.surface_total, Num(0))
    /\ Ge(params.traffic_demand, Num(0))
    /\ Le(params.traffic_demand, Num(100))
    /\ Ge(params.qos_requirements, Num(0))
    /\ Le(params.qos_requirements, Num(100))

\* C8 (as claimed): the engine is invoked only if surface_total > 0 and
\* traffic_demand and qos_requirements are in [0, 100]; otherwise the
\* request ends in the validation-error outcome, the engine is never called
\* and neither file is written.
C8_ValidationPrecedesEngine ==
    /\ engine_called => RangesHold
    /\ (pc = "done" /\ params # NoParams /\ ~RangesHold) =>
         /\ outcome = "validation_error"
         /\ ~engine_called
         /\ pattern_png = << >> /\ report_pdf = << >>

-----------------------------------------------------------------------------
(* SpecSession: calculate_advanced_dimensioning called again and again in  *)
(* one process, on arguments that repeat, under one propagation law.  The  *)
(* locals of a finished call (bracket, probes, radius, results) are still  *)
(* in the state when the next call starts.                                 *)

MaxCalls == 3

\* the arguments of the session: two known technologies and an unknown one,
\* a light and a heavy traffic demand
SessionInputs ==
    { [ReferenceParams EXCEPT !.technology = t, !.traffic_demand = Num(td)] :
        t \in {"GSM", "LTE", "5G"}, td \in {20, 80} }

\* lines 486-495: the engine has returned or raised, and is called once
\* more; a returned result is remembered with the arguments it answers
CallAgain ==
    /\ pc \in {"draw", "except"}
    /\ Len(calls) < MaxCalls
    /\ calls' = IF pc = "draw"
                THEN Append(calls, [inputs |-> params, results |-> results[1]])
                ELSE calls
    /\ params' \in SessionInputs
    /\ raised' = "none"
    /\ pc' = "engine"
    /\ UNCHANGED << suspended, served >>
    /\ UNCHANGED << TELECOM_TECHNOLOGIES, world, form, min_radius,
                    max_radius, probes, radius, results, engine_called,
                    pattern_png, report_pdf, outcome >>

InitSession ==
    /\ Fresh
    /\ form = NoForm
    /\ world \in EngineWorlds
    /\ params \in SessionInputs
    /\ pc = "engine"

NextSession == Lookup \/ BisectStep \/ SolverReturn \/ Dimension \/ CallAgain

SpecSession == InitSession /\ [][NextSession]_vars

\* the call in progress has returned a result
EngineReturned == pc = "draw"

\* C11: no engine operation modifies TELECOM_TECHNOLOGIES, and two calls of
\* calculate_advanced_dimensioning on identical arguments return identical
\* results, whatever calls ran before or in between.
C11_DeterministicEngine ==
    /\ TELECOM_TECHNOLOGIES = Registry
    /\ \A i, j \in 1 .. Len(calls) :
           calls[i].inputs = calls[j].inputs
               => calls[i].results = calls[j].results
    /\ EngineReturned =>
           \A i \in 1 .. Len(calls) :
               calls[i].inputs = params => calls[i].results = results[1]

\* C11 witness: a call has returned on the arguments of the first call,
\* after a call on other arguments that returned another result in between.
C11_Witness ==
    /\ EngineReturned
    /\ Len(calls) >= 2
    /\ calls[1].inputs = params
    /\ calls[2].inputs # params
    /\ calls[2].results # results[1]

-----------------------------------------------------------------------------
(* Totality of calculate_advanced_dimensioning, under SpecEngine *)

\* the constraints of the engine's interface on its arguments
InterfaceConstraints ==
    /\ RangesHold
    /\ params.technology \in DOMAIN TELECOM_TECHNOLOGIES
    /\ Gt(params.frequency, Num(0))
    /\ Gt(params.hb, Num(0))
    /\ Gt(params.hm, Num(0))

\* C12 (as claimed): on arguments that satisfy the interface constraints,
\* a QoS target of 0 included, calculate_advanced_dimensioning raises
\* nothing and returns a result; with a QoS target of 0 the optimal_radius
\* it returns is 0.
C12_TotalOnAcceptedInputs ==
    InterfaceConstraints =>
        /\ pc # "except"
        /\ raised = "none"
        /\ (HasResult /\ params.qos_requirements = Num(0))
              => results[1].optimal_radius = 0

-----------------------------------------------------------------------------
(* SpecConcurrent: two /calculate requests and /download_report served by  *)
(* the threaded development server (app.run, line 534).  One request runs, *)
(* the locals of the other are in suspended; the registry, the propagation *)
(* law and the two files are shared.                                       *)

\* the locals of the running request
Locals ==
    [ form |-> form, params |-> params, pc |-> pc, raised |-> raised,
      min_radius |-> min_radius, max_radius |-> max_radius,
      probes |-> probes, radius |-> radius, results |-> results,
      engine_called |-> engine_called, outcome |-> outcome ]

\* the forms of the two requests: GSM (7 cells per cluster at 90 % QoS),
\* LTE (1 cell per cluster), an unknown technology, a surface of 0
ConcurrentForms ==
    { [ReferenceForm EXCEPT !.technology = "GSM"],
      ReferenceForm,
      [ReferenceForm EXCEPT !.technology = "5G"],
      [ReferenceForm EXCEPT !.surface_total = "0"] }

\* A second request arrives while the first is being handled; its thread
\* has not run yet.
Arrive ==
    /\ suspended = << >>
    /\ \E f \in ConcurrentForms :
         suspended' = << [ form |-> f, params |-> NoParams, pc |-> "parse",
                           raised |-> "none", min_radius |-> MIN_RADIUS,
                           max_radius |-> MAX_RADIUS, probes |-> << >>,
                           radius |-> 0, results |-> << >>,
                           engine_called |-> FALSE,
                           outcome |-> "pending" ] >>
    /\ UNCHANGED << TELECOM_TECHNOLOGIES, world, form, params, pc, raised,
                    min_radius, max_radius, probes, radius, results,
                    engine_called, pattern_png, report_pdf, outcome, calls,
                    served >>

\* The server switches from the running request's thread to the other one.
Switch ==
    /\ suspended # << >>
    /\ suspended[1].pc # "done"
    /\ suspended' = << Locals >>
    /\ form' = suspended[1].form
    /\ params' = suspended[1].params
    /\ pc' = suspended[1].pc
    /\ raised' = suspended[1].raised
    /\ min_radius' = suspended[1].min_radius
    /\ max_radius' = suspended[1].max_radius
    /\ probes' = suspended[1].probes
    /\ radius' = suspended[1].radius
    /\ results' = suspended[1].results
    /\ engine_called' = suspended[1].engine_called
    /\ outcome' = suspended[1].outcome
    /\ UNCHANGED << TELECOM_TECHNOLOGIES, world, pattern_png, report_pdf,
                    calls, served >>

\* one of the two requests has completed successfully
SomeSuccess ==
    \/ outcome = "success"
    \/ suspended # << >> /\ suspended[1].outcome = "success"

\* lines 522-528: /download_report sends advanced_report.pdf as it is on
\* disk, or redirects to the index when there is none
DownloadReport ==
    /\ served' = << [ found         |-> report_pdf # << >>,
                      after_success |-> SomeSuccess,
                      body          |-> report_pdf ] >>
    /\ UNCHANGED << TELECOM_TECHNOLOGIES, world, form, params, pc, raised,
                    min_radius, max_radius, probes, radius, results,
                    engine_called, pattern_png, report_pdf, outcome, calls,
                    suspended >>

InitConcurrent ==
    /\ Fresh
    /\ form \in ConcurrentForms
    /\ world = [kind |-> "monotone", T |-> 2 * Scale]
    /\ params = NoParams
    /\ pc = "parse"

NextConcurrent ==
    \/ Parse
    \/ Validate
    \/ Lookup
    \/ BisectStep
    \/ SolverReturn
    \/ Dimension
    \/ DrawPattern
    \/ GenerateReport
    \/ Respond
    \/ HandleValueError
    \/ HandleException
    \/ Arrive
    \/ Switch
    \/ DownloadReport

SpecConcurrent == InitConcurrent /\ [][NextConcurrent]_vars

\* the image of a report is the chart drawn from the results in its tables
ReportConsistent(report) == report.image = PatternOf(report.results)

\* C13 (as claimed): under any interleaving of two /calculate requests, the
\* report written for a request holds the image drawn from that request's
\* results, and a report that /download_report serves after a successful
\* request has tables and image of one single calculation.
C13_ReportConsistency ==
    /\ report_pdf # << >> => ReportConsistent(report_pdf[1])
    /\ (/\ served # << >>
        /\ served[1].found
        /\ served[1].after_success) => ReportConsistent(served[1].body[1])

=============================================================================
